---- MODULE Spec2Model ----
(***************************************************************************)
(* Catalog browser.  Backend: the GET /api/items query pipeline and the    *)
(* single-item route (backend/src/routes/items.js) and the GET /api/stats  *)
(* response cache (backend/src/routes/stats.js).  Frontend: the client     *)
(* query mirror and the cancellable fetchItems of                          *)
(* frontend/src/state/DataContext.js, as the items view calls it.          *)
(*                                                                         *)
(* Conventions.  A JavaScript string is a sequence of one-character        *)
(* strings.  A value that may be undefined (an optional item field, an     *)
(* optional query parameter, null, NaN) is a sequence of length at most    *)
(* one: << >> is undefined and <<v>> is the value v.  A price is a whole   *)
(* number of hundredths, so 1050 is the number 10.5.                       *)
(***************************************************************************)
EXTENDS Integers, Sequences, FiniteSets, TLC

VARIABLES
    dataFile,       \* the file at items.js DATA_PATH
    itemsPc,        \* GET /api/items: "idle", "reading" (awaiting readData), "done"
    itemsQuery,     \* req.query of the pending GET /api/items
    itemsRes,       \* its response
    statsFile,      \* the file at stats.js DATA_PATH
    statsCache,     \* stats.js statsCache
    now,            \* Date.now()
    statsPc,        \* per GET /api/stats: "idle", "stat", "read", "done"
    statsModTime,   \* per GET /api/stats: currentFileModTime while fs.readFile is awaited
    statsRaw,       \* per GET /api/stats: what fs.readFile has read, until the handler resumes
    staleFill,      \* the cache was filled from a read that an invalidation came after
    statsRes,       \* per GET /api/stats: the response
    fileChanges,    \* number of changes made to statsFile
    lastStatsBody,  \* body of the latest 200 answer of GET /api/stats
    quiet,          \* no file change and no invalidation since that answer
    idPc,           \* GET /api/items/:id: "idle", "reading" (awaiting readData), "done"
    idParam,        \* req.params.id of the pending GET /api/items/:id
    idRes,          \* its response
    idFileRead,     \* readData() was called for the pending GET /api/items/:id
    postBody,       \* req.body of the POST /api/items being answered
    postRes,        \* its response
    fetchPc,        \* per fetchItems call: the await it is suspended at, or how it ended
    cancelled,      \* per fetchItems call: requestTracker.cancelled
    activeRequestRef, \* activeRequestRef.current: a call, or 0 for null
    isMounted,      \* isMountedRef.current of the items view
    shown,          \* items, allItems, pagination, searchMetadata: the call that set them
    loading,        \* the loading state
    error,          \* the error state: the call whose message it holds, or 0 for null
    sent,           \* per fetchItems call: the requests it has made
    detailView,     \* the ItemDetail instance: "none" (not rendered yet), "shown", "gone"
    routeId,        \* its :id route parameter, 0 for none
    isMountedRef,   \* its isMountedRef.current
    fetchItemPc,    \* per fetchItem call: "idle", "fetch", "json", "done"
    fetchItemId,    \* per fetchItem call: the id in the URL it fetched
    itemState,      \* its item state: the call that set it and the id fetched, by = 0 for null
    itemLoading,    \* its loading state
    itemError       \* its error state: the call that set it, or "no id"; by = 0 for null

vars == <<dataFile, itemsPc, itemsQuery, itemsRes,
          statsFile, statsCache, now, statsPc, statsModTime, statsRaw, staleFill, statsRes,
          fileChanges, lastStatsBody, quiet,
          idPc, idParam, idRes, idFileRead, postBody, postRes,
          fetchPc, cancelled, activeRequestRef, isMounted, shown, loading, error, sent,
          detailView, routeId, isMountedRef, fetchItemPc, fetchItemId, itemState, itemLoading,
          itemError>>

clientVars == <<fetchPc, cancelled, activeRequestRef, isMounted, shown, loading, error, sent>>

viewVars == <<detailView, routeId, isMountedRef, fetchItemPc, fetchItemId, itemState, itemLoading,
              itemError>>

routeVars == <<idPc, idParam, idRes, idFileRead, postBody, postRes>>

detailVars == <<routeVars, viewVars>>

itemsVars == <<dataFile, itemsPc, itemsQuery, itemsRes>>

statsVars == <<statsFile, statsCache, now, statsPc, statsModTime, statsRaw, staleFill, statsRes,
               fileChanges, lastStatsBody, quiet>>

(***************************************************************************)
(* Bounds of the model.                                                    *)
(***************************************************************************)
MaxItems == 3

MaxRequests == 2

MaxTicks == 3

MaxFileChanges == 1

MaxLoads == 2

MaxVisits == 2

(***************************************************************************)
(* Optional values.                                                        *)
(***************************************************************************)
Undefined == << >>

Some(v) == <<v>>

IsDef(m) == m # << >>

Val(m) == m[1]

Min(a, b) == IF a < b THEN a ELSE b

Max(a, b) == IF a > b THEN a ELSE b

(***************************************************************************)
(* Strings: code units, String.prototype.toLowerCase, trim, includes, <.   *)
(***************************************************************************)
Ascii == <<" ", "-", ".", "0", "1", "2", "3", "4", "5", "6", "7", "8", "9",
           "A", "B", "C", "D", "E", "S", "X", "Y",
           "a", "b", "c", "d", "e", "s", "x", "y">>

CharCode(c) == CHOOSE i \in 1..Len(Ascii) : Ascii[i] = c

ToLowerChar(c) ==
    CASE c = "A" -> "a" [] c = "B" -> "b" [] c = "C" -> "c" [] c = "D" -> "d"
      [] c = "E" -> "e" [] c = "S" -> "s" [] c = "X" -> "x" [] c = "Y" -> "y"
      [] OTHER -> c

ToLowerCase(s) == [i \in 1..Len(s) |-> ToLowerChar(s[i])]

RECURSIVE TrimStart(_)
TrimStart(s) ==
    IF s # << >> /\ Head(s) = " " THEN TrimStart(Tail(s)) ELSE s

RECURSIVE TrimEnd(_)
TrimEnd(s) ==
    IF s # << >> /\ s[Len(s)] = " " THEN TrimEnd(SubSeq(s, 1, Len(s) - 1)) ELSE s

Trim(s) == TrimEnd(TrimStart(s))

Includes(s, t) ==
    \E i \in 0..(Len(s) - Len(t)) : SubSeq(s, i + 1, i + Len(t)) = t

\* s < t on strings: the first differing code unit decides, a proper prefix is smaller
StrLess(s, t) ==
    \/ /\ Len(s) < Len(t)
       /\ SubSeq(t, 1, Len(s)) = s
    \/ \E i \in 1..Min(Len(s), Len(t)) :
          /\ SubSeq(s, 1, i - 1) = SubSeq(t, 1, i - 1)
          /\ CharCode(s[i]) < CharCode(t[i])

(***************************************************************************)
(* Numbers: Number.prototype.toString and parseInt.                        *)
(***************************************************************************)
DigitChars == <<"0", "1", "2", "3", "4", "5", "6", "7", "8", "9">>

IsDigit(c) == \E d \in 1..10 : DigitChars[d] = c

DigitVal(c) == (CHOOSE d \in 1..10 : DigitChars[d] = c) - 1

RECURSIVE NatToString(_)
NatToString(n) ==
    IF n < 10 THEN <<DigitChars[n + 1]>>
    ELSE NatToString(n \div 10) \o <<DigitChars[(n % 10) + 1]>>

IntToString(n) == IF n < 0 THEN <<"-">> \o NatToString(0 - n) ELSE NatToString(n)

\* toString of the number c/100: no trailing zeros, no point for a whole number
PriceToString(c) ==
    LET whole == NatToString(c \div 100)
        frac  == c % 100
    IN  IF frac = 0 THEN whole
        ELSE IF frac % 10 = 0 THEN whole \o <<".", DigitChars[(frac \div 10) + 1]>>
        ELSE whole \o <<".", DigitChars[(frac \div 10) + 1], DigitChars[(frac % 10) + 1]>>

RECURSIVE DigitPrefix(_)
DigitPrefix(s) ==
    IF s # << >> /\ IsDigit(Head(s)) THEN <<Head(s)>> \o DigitPrefix(Tail(s)) ELSE << >>

RECURSIVE DigitsValue(_)
DigitsValue(ds) ==
    IF ds = << >> THEN 0
    ELSE 10 * DigitsValue(SubSeq(ds, 1, Len(ds) - 1)) + DigitVal(ds[Len(ds)])

\* parseInt(s): leading white space, an optional sign, the longest digit prefix;
\* NaN (Undefined) when there is no digit
ParseInt(s) ==
    LET t    == TrimStart(s)
        neg  == t # << >> /\ Head(t) = "-"
        rest == IF neg THEN Tail(t) ELSE t
        ds   == DigitPrefix(rest)
    IN  IF ds = << >> THEN Undefined
        ELSE Some(IF neg THEN 0 - DigitsValue(ds) ELSE DigitsValue(ds))

(***************************************************************************)
(* Items.  Every field is optional in the stored JSON; id and price are    *)
(* numbers, the other fields are strings.                                  *)
(***************************************************************************)
Item(id, name, category, description, price, createdAt) ==
    [id |-> id, name |-> name, category |-> category,
     description |-> description, price |-> price, createdAt |-> createdAt]

ItemPool ==
    { Item(Some(1), Some(<<"A", "b">>), Some(<<"x">>), Undefined,
           Some(1050), Some(<<"2">>)),
      Item(Some(2), Some(<<"b">>), Some(<<"X">>), Some(<<"a", "b">>),
           Some(500), Some(<<"1">>)),
      Item(Some(3), Some(<<"a", "B">>), Undefined, Undefined,
           Undefined, Undefined),
      Item(Some(12), Some(<<"a", "b">>), Some(<<"y">>), Undefined,
           Some(1050), Some(<<"2">>)) }

\* the collections of the backing file: distinct items of the pool in any order
Collections ==
    UNION { { c \in [1..n -> ItemPool] : \A i, j \in 1..n : i # j => c[i] # c[j] }
            : n \in 0..MaxItems }

StringFields == {"name", "category", "description", "createdAt"}

NumberFields == {"id", "price"}

(***************************************************************************)
(* searchItems(items, query)                                               *)
(***************************************************************************)
\* [item.name, item.category, item.description, item.id?.toString(),
\*  item.price?.toString()]
SearchableFields(item) ==
    << item.name,
       item.category,
       item.description,
       IF IsDef(item.id) THEN Some(IntToString(Val(item.id))) ELSE Undefined,
       IF IsDef(item.price) THEN Some(PriceToString(Val(item.price))) ELSE Undefined >>

FieldMatchesCaseSensitive(field, searchTerm) ==
    /\ IsDef(field)
    /\ Val(field) # << >>
    /\ Includes(Val(field), searchTerm)

\* field && field.toString().toLowerCase().includes(searchTerm)
FieldMatches(field, searchTerm) ==
    /\ IsDef(field)
    /\ Val(field) # << >>
    /\ Includes(ToLowerCase(Val(field)), searchTerm)

ItemMatches(item, searchTerm) ==
    \E k \in 1..5 : FieldMatches(SearchableFields(item)[k], searchTerm)

searchItems(items, query) ==
    IF Trim(query) = << >> THEN items
    ELSE LET searchTerm == Trim(ToLowerCase(query))
             Keep(item) == ItemMatches(item, searchTerm)
         IN  SelectSeq(items, Keep)

(***************************************************************************)
(* sortItems(items, sortBy, sortOrder)                                     *)
(***************************************************************************)
validSortFields == {"id", "name", "price", "category", "createdAt"}

SortFieldNameFallback(sortBy) == IF sortBy \in validSortFields THEN sortBy ELSE "name"

SortField(sortBy) == IF sortBy \in validSortFields THEN sortBy ELSE "id"

SortOrderOf(sortOrder) ==
    IF ToLowerCase(sortOrder) = <<"d", "e", "s", "c">> THEN "desc" ELSE "asc"

\* aVal < bVal after the comparator's lower-casing; a comparison with undefined is false
ValLess(aVal, bVal, field) ==
    IF field \in NumberFields
    THEN IsDef(aVal) /\ IsDef(bVal) /\ Val(aVal) < Val(bVal)
    ELSE /\ IsDef(aVal)
         /\ StrLess(ToLowerCase(Val(aVal)),
                    IF IsDef(bVal) THEN ToLowerCase(Val(bVal)) ELSE << >>)

\* bVal < aVal, with the same asymmetric treatment: only bVal is defaulted to ''
ValGreater(aVal, bVal, field) ==
    IF field \in NumberFields
    THEN IsDef(aVal) /\ IsDef(bVal) /\ Val(aVal) > Val(bVal)
    ELSE /\ IsDef(aVal)
         /\ StrLess(IF IsDef(bVal) THEN ToLowerCase(Val(bVal)) ELSE << >>,
                    ToLowerCase(Val(aVal)))

\* the comparison function handed to Array.prototype.sort
Compare(a, b, field, order) ==
    IF ValLess(a[field], b[field], field) THEN (IF order = "asc" THEN -1 ELSE 1)
    ELSE IF ValGreater(a[field], b[field], field) THEN (IF order = "asc" THEN 1 ELSE -1)
    ELSE 0

(***************************************************************************)
(* Array.prototype.sort as the runtime performs it on an array shorter     *)
(* than 64 elements: the leading run is found (a strictly descending run   *)
(* is reversed) and the remaining elements are placed by binary insertion. *)
(* With a consistent comparison function this is the stable sort           *)
(* ECMAScript requires; with an inconsistent one it is what the runtime     *)
(* returns.  Indices are 1-based here.                                      *)
(***************************************************************************)
Reverse(s) == [i \in 1..Len(s) |-> s[Len(s) + 1 - i]]

\* the length of the run that starts at arr[1], given that arr[1..idx-1] is in it
RECURSIVE CountRun(_, _, _, _, _)
CountRun(arr, idx, isDescending, field, order) ==
    IF idx > Len(arr) THEN idx - 1
    ELSE LET c == Compare(arr[idx], arr[idx - 1], field, order)
         IN  IF (isDescending /\ c >= 0) \/ (~isDescending /\ c < 0)
             THEN idx - 1
             ELSE CountRun(arr, idx + 1, isDescending, field, order)

\* the position at which pivot is inserted into the sorted arr[left..right-1]
RECURSIVE InsertionPoint(_, _, _, _, _, _)
InsertionPoint(arr, pivot, left, right, field, order) ==
    IF left >= right THEN left
    ELSE LET mid == left + ((right - left) \div 2)
         IN  IF Compare(pivot, arr[mid], field, order) < 0
             THEN InsertionPoint(arr, pivot, left, mid, field, order)
             ELSE InsertionPoint(arr, pivot, mid + 1, right, field, order)

RECURSIVE BinaryInsertionSort(_, _, _, _)
BinaryInsertionSort(arr, start, field, order) ==
    IF start > Len(arr) THEN arr
    ELSE LET pivot == arr[start]
             left  == InsertionPoint(arr, pivot, 1, start, field, order)
             moved == SubSeq(arr, 1, left - 1) \o <<pivot>>
                        \o SubSeq(arr, left, start - 1)
                        \o SubSeq(arr, start + 1, Len(arr))
         IN  BinaryInsertionSort(moved, start + 1, field, order)

ArraySort(arr, field, order) ==
    IF Len(arr) < 2 THEN arr
    ELSE LET isDescending == Compare(arr[2], arr[1], field, order) < 0
             runLength    == CountRun(arr, 3, isDescending, field, order)
             withRun      == IF isDescending
                             THEN Reverse(SubSeq(arr, 1, runLength))
                                    \o SubSeq(arr, runLength + 1, Len(arr))
                             ELSE arr
         IN  BinaryInsertionSort(withRun, runLength + 1, field, order)

sortItems(items, sortBy, sortOrder) ==
    ArraySort(items, SortField(sortBy), SortOrderOf(sortOrder))

(***************************************************************************)
(* paginateItems(items, page, limit)                                       *)
(***************************************************************************)
\* x || d for a number x: NaN and 0 are falsy
OrDefault(x, d) == IF IsDef(x) /\ Val(x) # 0 THEN Val(x) ELSE d

PageNumNoLowerClamp(page) == Max(0, OrDefault(ParseInt(page), 1))

PageNum(page) == Max(1, OrDefault(ParseInt(page), 1))

LimitNumNoUpperClamp(limit) == Max(1, OrDefault(ParseInt(limit), 10))

LimitNum(limit) == Min(100, Max(1, OrDefault(ParseInt(limit), 10)))

\* a relative index of Array.prototype.slice: negative counts from the end
SliceIndex(k, len) == IF k < 0 THEN Max(len + k, 0) ELSE Min(k, len)

SliceInclusiveEnd(items, startIndex, endIndex) ==
    SubSeq(items, SliceIndex(startIndex, Len(items)) + 1,
                  SliceIndex(endIndex + 1, Len(items)))

\* Array.prototype.slice(startIndex, endIndex)
Slice(items, startIndex, endIndex) ==
    SubSeq(items, SliceIndex(startIndex, Len(items)) + 1,
                  SliceIndex(endIndex, Len(items)))

TotalItemsOfPage(items, paginatedItems) == Len(paginatedItems)

\* const totalItems = items.length
TotalItemsOf(items, paginatedItems) == Len(items)

FloorDiv(a, b) == a \div b

\* Math.ceil(a / b) for a >= 0, b > 0
CeilDiv(a, b) == (a + b - 1) \div b

paginateItems(items, page, limit) ==
    LET pageNum    == PageNum(page)
        limitNum   == LimitNum(limit)
        startIndex == (pageNum - 1) * limitNum
        endIndex   == startIndex + limitNum
        paginatedItems == Slice(items, startIndex, endIndex)
        totalItems == TotalItemsOf(items, paginatedItems)
        totalPages == CeilDiv(totalItems, limitNum)
    IN  [items |-> paginatedItems,
         pagination |->
            [currentPage  |-> pageNum,
             totalPages   |-> totalPages,
             totalItems   |-> totalItems,
             itemsPerPage |-> limitNum,
             hasNextPage  |-> pageNum < totalPages,
             hasPrevPage  |-> pageNum > 1,
             nextPage     |-> IF pageNum < totalPages THEN Some(pageNum + 1) ELSE Undefined,
             prevPage     |-> IF pageNum > 1 THEN Some(pageNum - 1) ELSE Undefined]]

(***************************************************************************)
(* The backing file and readData().                                        *)
(***************************************************************************)
\* state: "ok" (a JSON array), "absent" (ENOENT), "denied" (EACCES),
\* "corrupt" (not JSON)
File(state, items, mtime) == [state |-> state, items |-> items, mtime |-> mtime]

StartTime == 1000000

FileStates ==
    { File("ok", c, StartTime) : c \in Collections }
      \cup { File(st, << >>, StartTime) : st \in {"denied", "corrupt"} }
      \cup { File("absent", << >>, 0) }

readDataCatchAll(file) ==
    CASE file.state = "ok" -> [threw |-> FALSE, data |-> file.items]
      [] OTHER             -> [threw |-> FALSE, data |-> << >>]

\* the outcome of readData(): the parsed array, [] for ENOENT, or the error thrown
readData(file) ==
    CASE file.state = "ok"     -> [threw |-> FALSE, data |-> file.items]
      [] file.state = "absent" -> [threw |-> FALSE, data |-> << >>]
      [] OTHER                 -> [threw |-> TRUE, data |-> << >>]

(***************************************************************************)
(* router.get('/'): the query string and the handler.  q, category, page,  *)
(* limit and sortOrder are strings; sortBy is only ever compared as a      *)
(* whole, so it is kept as one value.                                      *)
(***************************************************************************)
Query(q, category, sortBy, sortOrder, page, limit) ==
    [q |-> q, category |-> category, sortBy |-> sortBy,
     sortOrder |-> sortOrder, page |-> page, limit |-> limit]

QValues == { Undefined, Some(<<" ">>), Some(<<" ", "B">>), Some(<<".", "5">>) }

CategoryValues == { Undefined, Some(<<" ">>), Some(<<"X", " ">>) }

SortByValues == { Undefined, Some("name"), Some("price"), Some("category"),
                  Some("createdAt"), Some("bogus") }

SortOrderValues == { Undefined, Some(<<"D", "E", "S", "C">>) }

PageValues == { Undefined, Some(<<"-", "1">>), Some(<<"2">>), Some(<<"x">>) }

LimitValues == { Undefined, Some(<<"0">>), Some(<<"2">>), Some(<<"-", "3">>),
                 Some(<<"2", "0", "0">>), Some(<<"x">>) }

Queries ==
    { Query(q, c, sb, so, p, l) :
        q \in QValues, c \in CategoryValues, sb \in SortByValues,
        so \in SortOrderValues, p \in PageValues, l \in LimitValues }

\* a string used as a condition: undefined and '' are falsy
Truthy(m) == IsDef(m) /\ Val(m) # << >>

\* const { q: searchQuery, page = 1, limit = 10, sortBy = 'id', sortOrder = 'asc',
\*         category } = req.query
PageOf(query) == IF IsDef(query.page) THEN Val(query.page) ELSE <<"1">>

LimitOf(query) == IF IsDef(query.limit) THEN Val(query.limit) ELSE <<"1", "0">>

SortByOf(query) == IF IsDef(query.sortBy) THEN Val(query.sortBy) ELSE "id"

SortOrderOf2(query) ==
    IF IsDef(query.sortOrder) THEN Val(query.sortOrder) ELSE <<"a", "s", "c">>

CategoryKeepsUntrimmed(item, category) ==
    /\ Truthy(item.category)
    /\ ToLowerCase(Val(item.category)) = ToLowerCase(category)

\* item.category && item.category.toLowerCase() === category.toLowerCase().trim()
CategoryKeeps(item, category) ==
    /\ Truthy(item.category)
    /\ ToLowerCase(Val(item.category)) = Trim(ToLowerCase(category))

CategoryStep(data, category) ==
    IF Truthy(category) /\ Trim(Val(category)) # << >>
    THEN LET Keep(item) == CategoryKeeps(item, Val(category))
         IN  SelectSeq(data, Keep)
    ELSE data

SearchStep(results, searchQuery) ==
    IF Truthy(searchQuery) THEN searchItems(results, Val(searchQuery)) ELSE results

\* the body of the 200 response
ItemsBody(data, query) ==
    LET filtered  == SearchStep(CategoryStep(data, query.category), query.q)
        results   == sortItems(filtered, SortByOf(query), SortOrderOf2(query))
        paginated == paginateItems(results, PageOf(query), LimitOf(query))
    IN  [items      |-> paginated.items,
         pagination |-> paginated.pagination,
         search     |->
            [query        |-> IF Truthy(query.q) THEN query.q ELSE Undefined,
             category     |-> IF Truthy(query.category) THEN query.category ELSE Undefined,
             sortBy       |-> SortByOf(query),
             sortOrder    |-> SortOrderOf2(query),
             resultsFound |-> Len(results)]]

\* res.json(response), or next(err) answered by the error middleware
ItemsResponse(file, query) ==
    LET read == readData(file)
    IN  IF read.threw THEN [status |-> 500]
        ELSE [status |-> 200, body |-> ItemsBody(read.data, query)]

NoResponse == [status |-> 0]

NoQuery == Query(Undefined, Undefined, Undefined, Undefined, Undefined, Undefined)

(***************************************************************************)
(* GET /api/items as a process: the request arrives and awaits readData(); *)
(* the read settles and the handler answers; the connection closes.        *)
(***************************************************************************)
ItemsRequest ==
    /\ itemsPc = "idle"
    /\ itemsPc' = "reading"
    /\ \E query \in Queries : itemsQuery' = query
    /\ UNCHANGED <<dataFile, itemsRes, statsVars, detailVars, clientVars>>

ItemsRespond ==
    /\ itemsPc = "reading"
    /\ itemsPc' = "done"
    /\ itemsRes' = ItemsResponse(dataFile, itemsQuery)
    /\ UNCHANGED <<dataFile, itemsQuery, statsVars, detailVars, clientVars>>

ItemsClose ==
    /\ itemsPc = "done"
    /\ itemsPc' = "idle"
    /\ itemsQuery' = NoQuery
    /\ itemsRes' = NoResponse
    /\ UNCHANGED <<dataFile, statsVars, detailVars, clientVars>>

(***************************************************************************)
(* stats.js: the cache, the clock and the backing file.                    *)
(***************************************************************************)
CACHE_TTL == 5 * 60 * 1000

\* the clock advances in half TTLs, so that a cache is seen at the ages
\* 0, TTL/2, TTL and 3*TTL/2
TickMs == CACHE_TTL \div 2

EmptyCache == [data |-> Undefined, timestamp |-> 0, fileModTime |-> 0]

Requests == 1..MaxRequests

\* the stored array grows by appending: the first n items of this sequence
StoredItems ==
    << Item(Some(1), Some(<<"A", "b">>), Some(<<"x">>), Undefined,
            Some(1050), Some(<<"2">>)),
       Item(Some(2), Some(<<"b">>), Some(<<"X">>), Some(<<"a", "b">>),
            Some(500), Some(<<"1">>)),
       Item(Some(3), Some(<<"a", "B">>), Undefined, Undefined,
            Undefined, Undefined),
       Item(Some(12), Some(<<"a", "b">>), Some(<<"y">>), Undefined,
            Some(1050), Some(<<"2">>)) >>

\* what a change can leave at the path: an array, nothing, a file that is not
\* JSON (an unreadable file fails the request in the same way)
StatsFileContents ==
    { [state |-> "ok", items |-> SubSeq(StoredItems, 1, n)]
        : n \in 0..Min(MaxItems, Len(StoredItems)) }
      \cup { [state |-> st, items |-> << >>] : st \in {"absent", "corrupt"} }

\* nothing read
NoRaw == [state |-> "none", items |-> << >>, stale |-> FALSE]

\* function invalidateCache()
invalidateCache == EmptyCache

isCacheValidTtlInSeconds(cache, t) ==
    ~(~IsDef(cache.data) \/ (t - cache.timestamp > CACHE_TTL \div 1000))

\* function isCacheValid(), at time t = Date.now()
isCacheValid(cache, t) ==
    ~(~IsDef(cache.data) \/ (t - cache.timestamp > CACHE_TTL))

\* async function getFileModTime(): stats.mtime.getTime(), 0 when fs.stat fails
getFileModTime(file) == IF file.state = "absent" THEN 0 ELSE file.mtime

RECURSIVE SumPrices(_)
\* items.reduce((acc, cur) => acc + (typeof cur.price === 'number' ? cur.price : 0), 0)
SumPrices(items) ==
    IF items = << >> THEN 0
    ELSE (IF IsDef(Head(items).price) THEN Val(Head(items).price) ELSE 0)
           + SumPrices(Tail(items))

RoundDivTruncating(a, b) == a \div b

\* Math.round(x) for x = a / b >= 0: the nearest integer, halves upwards
RoundDiv(a, b) == ((2 * a) + b) \div (2 * b)

\* function calculateStats(items); averagePrice in hundredths, as prices are
calculateStats(items) ==
    IF Len(items) = 0 THEN [total |-> 0, averagePrice |-> 0]
    ELSE [total |-> Len(items), averagePrice |-> RoundDiv(SumPrices(items), Len(items))]

emptyStats == [total |-> 0, averagePrice |-> 0]

isAnyReadError(file) == file.state # "ok"

\* error.code === 'ENOENT' for the error fs.readFile or JSON.parse threw
isENOENT(file) == file.state = "absent"

catchENOENTWithoutCaching(cache, t) == cache

\* the catch block of loadAndCacheStats() for ENOENT, at time t = Date.now()
catchENOENT(cache, t) == [cache EXCEPT !.data = Some(emptyStats), !.timestamp = t]

\* res.json(body) of GET /api/stats; fromCache tells that no recompute was made
StatsAnswer(body, fromCache) == [status |-> 200, body |-> body, fromCache |-> fromCache]

(***************************************************************************)
(* GET /api/stats as a process.  Each request is made once and requests    *)
(* are numbered in their order of arrival.  The handler runs without       *)
(* interruption between two awaits: fs.stat in getFileModTime() and        *)
(* fs.readFile in loadAndCacheStats().  What fs.readFile delivers is the    *)
(* file as it was when it was read, which is before the handler resumes:   *)
(* StatsFileRead and StatsParse separate the two, StatsReadDone is both    *)
(* with nothing in between.                                                *)
(*                                                                         *)
(* initFileWatcher() calls watch() of require('fs').promises, which takes   *)
(* (filename, options) and returns an async iterator: the function passed   *)
(* at stats.js:23-28 is never called, so no step of the program runs it.    *)
(***************************************************************************)
\* router.get('/') up to the first await
StatsStart(r) ==
    /\ statsPc[r] = "idle"
    /\ \A earlier \in 1..(r - 1) : statsPc[earlier] # "idle"
    /\ IF isCacheValid(statsCache, now)
       THEN /\ statsPc' = [statsPc EXCEPT ![r] = "done"]
            /\ statsRes' = [statsRes EXCEPT ![r] = StatsAnswer(Val(statsCache.data), TRUE)]
            /\ lastStatsBody' = statsCache.data
            /\ quiet' = TRUE
       ELSE /\ statsPc' = [statsPc EXCEPT ![r] = "stat"]
            /\ UNCHANGED <<statsRes, lastStatsBody, quiet>>
    /\ UNCHANGED <<itemsVars, detailVars, clientVars, statsFile, statsCache, now, statsModTime,
                   statsRaw, staleFill, fileChanges>>

\* loadAndCacheStats() from the resolution of fs.stat to the call of fs.readFile
StatsStatDone(r) ==
    /\ statsPc[r] = "stat"
    /\ LET currentFileModTime == getFileModTime(statsFile)
       IN  /\ IF /\ IsDef(statsCache.data)
                 /\ statsCache.fileModTime = currentFileModTime
                 /\ isCacheValid(statsCache, now)
              THEN /\ statsPc' = [statsPc EXCEPT ![r] = "done"]
                   /\ statsRes' = [statsRes EXCEPT
                                     ![r] = StatsAnswer(Val(statsCache.data), TRUE)]
                   /\ lastStatsBody' = statsCache.data
                   /\ quiet' = TRUE
                   /\ UNCHANGED statsModTime
              ELSE /\ statsPc' = [statsPc EXCEPT ![r] = "read"]
                   /\ statsModTime' = [statsModTime EXCEPT ![r] = currentFileModTime]
                   /\ UNCHANGED <<statsRes, lastStatsBody, quiet>>
    /\ UNCHANGED <<itemsVars, detailVars, clientVars, statsFile, statsCache, now,
                   statsRaw, staleFill, fileChanges>>

\* loadAndCacheStats() from the settling of fs.readFile, which read raw, to the response
StatsResume(r, raw) ==
    /\ statsPc' = [statsPc EXCEPT ![r] = "done"]
    /\ statsModTime' = [statsModTime EXCEPT ![r] = 0]
    /\ statsRaw' = [statsRaw EXCEPT ![r] = NoRaw]
    /\ CASE raw.state = "ok" ->
              LET stats == calculateStats(raw.items)
              IN  /\ statsCache' = [data        |-> Some(stats),
                                    timestamp   |-> now,
                                    fileModTime |-> statsModTime[r]]
                  /\ statsRes' = [statsRes EXCEPT ![r] = StatsAnswer(stats, FALSE)]
                  /\ lastStatsBody' = Some(stats)
                  /\ staleFill' = raw.stale
                  /\ quiet' = TRUE
         [] isENOENT(raw) ->
              /\ statsCache' = catchENOENT(statsCache, now)
              /\ statsRes' = [statsRes EXCEPT ![r] = StatsAnswer(emptyStats, FALSE)]
              /\ lastStatsBody' = Some(emptyStats)
              /\ staleFill' = raw.stale
              /\ quiet' = TRUE
         [] OTHER ->
              /\ statsRes' = [statsRes EXCEPT ![r] = [status |-> 500]]
              /\ UNCHANGED <<statsCache, lastStatsBody, staleFill, quiet>>
    /\ UNCHANGED <<itemsVars, detailVars, clientVars, statsFile, now, fileChanges>>

\* fs.readFile settles and the handler resumes with nothing in between
StatsReadDone(r) ==
    /\ statsPc[r] = "read"
    /\ StatsResume(r, [state |-> statsFile.state, items |-> statsFile.items, stale |-> FALSE])

\* fs.readFile has read the file; the handler resumes in a later turn of the event loop
StatsFileRead(r) ==
    /\ statsPc[r] = "read"
    /\ statsPc' = [statsPc EXCEPT ![r] = "parse"]
    /\ statsRaw' = [statsRaw EXCEPT ![r] = [state |-> statsFile.state,
                                            items |-> statsFile.items,
                                            stale |-> FALSE]]
    /\ UNCHANGED <<itemsVars, detailVars, clientVars, statsFile, statsCache, now, statsModTime,
                   staleFill, statsRes, fileChanges, lastStatsBody, quiet>>

\* the handler resumes with what fs.readFile had read
StatsParse(r) ==
    /\ statsPc[r] = "parse"
    /\ StatsResume(r, statsRaw[r])

\* router.delete('/cache'); a request that changes nothing is left out
StatsCacheDelete ==
    /\ statsCache # invalidateCache \/ \E r \in Requests : statsPc[r] = "parse" /\ ~statsRaw[r].stale
    /\ statsCache' = invalidateCache
    /\ statsRaw' = [r \in Requests |->
                      IF statsPc[r] = "parse" THEN [statsRaw[r] EXCEPT !.stale = TRUE]
                      ELSE statsRaw[r]]
    /\ staleFill' = FALSE
    /\ quiet' = FALSE
    /\ UNCHANGED <<itemsVars, detailVars, clientVars, statsFile, now, statsPc, statsModTime, statsRes,
                   fileChanges, lastStatsBody>>

\* the backing file is rewritten, removed, or left unreadable by another process
FileChange ==
    /\ fileChanges < MaxFileChanges
    /\ fileChanges' = fileChanges + 1
    /\ \E c \in StatsFileContents :
          /\ c # [state |-> statsFile.state, items |-> statsFile.items]
          /\ statsFile' = File(c.state, c.items, now)
    /\ quiet' = FALSE
    /\ UNCHANGED <<itemsVars, detailVars, clientVars, statsCache, now, statsPc, statsModTime,
                   statsRaw, staleFill, statsRes, lastStatsBody>>

\* time passes
Tick ==
    /\ now < StartTime + (MaxTicks * TickMs)
    /\ now' = now + TickMs
    /\ UNCHANGED <<itemsVars, detailVars, clientVars, statsFile, statsCache, statsPc, statsModTime,
                   statsRaw, staleFill, statsRes,
                   fileChanges, lastStatsBody, quiet>>

(***************************************************************************)
(* DataContext.js: the client-side query mirror.  searchParams has the     *)
(* fields of the server's query, with the same string values.             *)
(***************************************************************************)
\* item.category && item.category.toLowerCase() === category.toLowerCase()
ClientCategoryKeeps(item, category) ==
    /\ Truthy(item.category)
    /\ ToLowerCase(Val(item.category)) = ToLowerCase(category)

\* filteredItems.sort(...) with the comparison function of processItemsClientSide:
\* a field no item has compares equal everywhere and leaves the order as it is;
\* the direction is ascending only for sortOrder === 'asc'
ClientSort(items, sortBy, sortOrder) ==
    IF sortBy \notin validSortFields THEN items
    ELSE ArraySort(items, sortBy, IF sortOrder = <<"a", "s", "c">> THEN "asc" ELSE "desc")

\* processItemsClientSide(rawItems, searchParams)
processItemsClientSide(rawItems, searchParams) ==
    LET sortBy    == SortByOf(searchParams)
        sortOrder == SortOrderOf2(searchParams)
        searched  == IF Truthy(searchParams.q) /\ Trim(Val(searchParams.q)) # << >>
                     THEN LET searchTerm == Trim(ToLowerCase(Val(searchParams.q)))
                              Keep(item) == ItemMatches(item, searchTerm)
                          IN  SelectSeq(rawItems, Keep)
                     ELSE rawItems
        filtered  == IF Truthy(searchParams.category)
                     THEN LET Keep(item) == ClientCategoryKeeps(item, Val(searchParams.category))
                          IN  SelectSeq(searched, Keep)
                     ELSE searched
    IN  IF Len(filtered) > 0 THEN ClientSort(filtered, sortBy, sortOrder) ELSE filtered

\* Math.ceil(a / b) for a >= 0 and b # 0 of either sign
CeilQuotient(a, b) == IF b > 0 THEN CeilDiv(a, b) ELSE 0 - (a \div (0 - b))

\* Array.prototype.slice(startIndex, endIndex), empty when the end is not after the start
ClientSlice(items, startIndex, endIndex) ==
    IF SliceIndex(startIndex, Len(items)) >= SliceIndex(endIndex, Len(items)) THEN << >>
    ELSE Slice(items, startIndex, endIndex)

\* the fallback branch of fetchItems on the full collection rawItems: what it
\* passes to setItems, setPagination and setSearchMetadata
ClientFallback(rawItems, searchParams) ==
    LET limit         == IF IsDef(searchParams.limit) THEN Val(searchParams.limit)
                         ELSE <<"1", "2">>
        page          == PageOf(searchParams)
        filteredItems == processItemsClientSide(rawItems, searchParams)
        itemsPerPage  == OrDefault(ParseInt(limit), 12)
        currentPage   == OrDefault(ParseInt(page), 1)
        startIndex    == (currentPage - 1) * itemsPerPage
        endIndex      == startIndex + itemsPerPage
        totalItems    == Len(filteredItems)
        totalPages    == CeilQuotient(totalItems, itemsPerPage)
    IN  [items      |-> ClientSlice(filteredItems, startIndex, endIndex),
         pagination |->
            [currentPage  |-> currentPage,
             totalPages   |-> totalPages,
             totalItems   |-> totalItems,
             itemsPerPage |-> itemsPerPage,
             hasNextPage  |-> currentPage < totalPages,
             hasPrevPage  |-> currentPage > 1,
             nextPage     |-> IF currentPage < totalPages THEN Some(currentPage + 1)
                              ELSE Undefined,
             prevPage     |-> IF currentPage > 1 THEN Some(currentPage - 1) ELSE Undefined],
         resultsFound |-> Len(filteredItems)]

(***************************************************************************)
(* router.get('/:id') and the requests the router has no route for.        *)
(***************************************************************************)
IdParams ==
    { <<"2">>, <<"1", "2">>, <<"9">>, <<"x">>, <<"2", "x">>, <<"1", ".", "5">>, <<"-", "1">> }

\* the response of the error-handling middleware to next(err):
\* res.status(err.status || 500).json({ error: err.message })
ErrorResponse(status, message) == [status |-> status, error |-> message]

\* data.find(i => i.id === itemId): the first item with that id, if any
Find(data, itemId) ==
    LET hits == { i \in 1..Len(data) : data[i].id = Some(itemId) }
    IN  IF hits = {} THEN Undefined
        ELSE Some(data[CHOOSE i \in hits : \A j \in hits : i <= j])

\* router.get('/:id') after readData() has settled
IdResponse(file, id) ==
    LET read   == readData(file)
        itemId == ParseInt(id)
    IN  IF read.threw THEN ErrorResponse(500, "read failed")
        ELSE IF ~IsDef(itemId) THEN ErrorResponse(400, "Invalid item ID")
        ELSE LET item == Find(read.data, Val(itemId))
             IN  IF ~IsDef(item) THEN ErrorResponse(404, "Item not found")
                 ELSE [status |-> 200, body |-> Val(item)]

\* router.get('/:id') up to await readData()
IdRequest ==
    /\ idPc = "idle"
    /\ idPc' = "reading"
    /\ \E id \in IdParams : idParam' = id
    /\ idFileRead' = TRUE
    /\ UNCHANGED <<itemsVars, statsVars, clientVars, viewVars, idRes, postBody, postRes>>

\* router.get('/:id') from the settling of readData() to the response
IdRespond ==
    /\ idPc = "reading"
    /\ idPc' = "done"
    /\ idRes' = IdResponse(dataFile, idParam)
    /\ UNCHANGED <<itemsVars, statsVars, clientVars, viewVars, idParam, idFileRead, postBody, postRes>>

IdClose ==
    /\ idPc = "done"
    /\ idPc' = "idle"
    /\ idParam' = << >>
    /\ idRes' = NoResponse
    /\ idFileRead' = FALSE
    /\ UNCHANGED <<itemsVars, statsVars, clientVars, viewVars, postBody, postRes>>

\* the JSON bodies sent to POST /api/items: name and price, both optional
PostBodies ==
    { [name |-> n, price |-> pr] :
        n \in { Undefined, Some(<< >>), Some(<<"a", "b">>) }, pr \in { Undefined, Some(1599) } }

NoBody == [name |-> Undefined, price |-> Undefined]

\* the router defines get('/'), get('/categories') and get('/:id') only: a POST
\* matches no route, falls through the router and is answered 404 without a
\* read or a write of the file
PostRequest ==
    /\ postRes = NoResponse
    /\ \E body \in PostBodies : postBody' = body
    /\ postRes' = ErrorResponse(404, "Route Not Found")
    /\ UNCHANGED <<itemsVars, statsVars, clientVars, viewVars, idPc, idParam, idRes, idFileRead>>

PostClose ==
    /\ postRes # NoResponse
    /\ postBody' = NoBody
    /\ postRes' = NoResponse
    /\ UNCHANGED <<itemsVars, statsVars, clientVars, viewVars, idPc, idParam, idRes, idFileRead>>

(***************************************************************************)
(* ItemDetail.js: one instance of the component.  The router renders it    *)
(* for /items/:id and keeps the instance when only :id changes; the effect *)
(* on [id] then runs again, its previous cleanup first.  Visit v of the    *)
(* instance calls fetchItem (call v).  What is fetched for an id is not    *)
(* under the component's control.  A later instance has a ref and states   *)
(* of its own.                                                             *)
(***************************************************************************)
Visits == 1..MaxVisits

RouteIds == {1, 2}

NoItem == [by |-> 0, id |-> 0]

NoError == [by |-> 0]

\* if (isMountedRef.current) setError(err.message), with what the ref holds
ItemErrorAfter(mounted, v, current) == IF mounted THEN [by |-> v] ELSE current

\* if (isMountedRef.current) setLoading(false), with what the ref holds
ItemLoadingAfter(mounted, current) == IF mounted THEN FALSE ELSE current

\* the effect on [id] for a route with an id: the cleanup of the previous run,
\* if any, then fetchItem() up to await fetch(...)
ShowItem(v) ==
    /\ detailView # "gone"
    /\ fetchItemPc[v] = "idle"
    /\ \A earlier \in 1..(v - 1) : fetchItemPc[earlier] # "idle"
    /\ \E id \in RouteIds :
          /\ detailView = "shown" => id # routeId
          /\ routeId' = id
          /\ fetchItemId' = [fetchItemId EXCEPT ![v] = id]
    /\ detailView' = "shown"
    /\ isMountedRef' = TRUE
    /\ itemLoading' = TRUE
    /\ itemError' = NoError
    /\ fetchItemPc' = [fetchItemPc EXCEPT ![v] = "fetch"]
    /\ UNCHANGED <<itemsVars, statsVars, clientVars, routeVars, itemState>>

\* the effect on [id] for a route without an id
ShowWithoutId ==
    /\ detailView # "gone"
    /\ detailView = "shown" => routeId # 0
    /\ detailView' = "shown"
    /\ routeId' = 0
    /\ isMountedRef' = TRUE
    /\ itemError' = [by |-> "no id"]
    /\ itemLoading' = FALSE
    /\ UNCHANGED <<itemsVars, statsVars, clientVars, routeVars, fetchItemPc, fetchItemId, itemState>>

\* fetch(...) of fetchItem settles: rejected, or a response with a status
FetchItemDone(v) ==
    /\ fetchItemPc[v] = "fetch"
    /\ \E outcome \in {"rejected", "200", "400", "404", "500"} :
          IF outcome = "200" /\ isMountedRef
          THEN /\ fetchItemPc' = [fetchItemPc EXCEPT ![v] = "json"]
               /\ UNCHANGED <<itemError, itemLoading>>
          ELSE /\ fetchItemPc' = [fetchItemPc EXCEPT ![v] = "done"]
               /\ itemError' = ItemErrorAfter(isMountedRef, v, itemError)
               /\ itemLoading' = ItemLoadingAfter(isMountedRef, itemLoading)
    /\ UNCHANGED <<itemsVars, statsVars, clientVars, routeVars, detailView, routeId, isMountedRef,
                   fetchItemId, itemState>>

\* response.json() of fetchItem settles
FetchItemJsonDone(v) ==
    /\ fetchItemPc[v] = "json"
    /\ fetchItemPc' = [fetchItemPc EXCEPT ![v] = "done"]
    /\ \E parsed \in BOOLEAN :
          IF parsed
          THEN /\ itemState' = IF isMountedRef THEN [by |-> v, id |-> fetchItemId[v]] ELSE itemState
               /\ UNCHANGED itemError
          ELSE /\ itemError' = ItemErrorAfter(isMountedRef, v, itemError)
               /\ UNCHANGED itemState
    /\ itemLoading' = ItemLoadingAfter(isMountedRef, itemLoading)
    /\ UNCHANGED <<itemsVars, statsVars, clientVars, routeVars, detailView, routeId, isMountedRef,
                   fetchItemId>>

\* the instance unmounts: both effect cleanups set isMountedRef.current = false
UnmountDetail ==
    /\ detailView = "shown"
    /\ detailView' = "gone"
    /\ isMountedRef' = FALSE
    /\ UNCHANGED <<itemsVars, statsVars, clientVars, routeVars, routeId, fetchItemPc, fetchItemId,
                   itemState, itemLoading, itemError>>

ViewInitVars ==
    /\ detailView = "none"
    /\ routeId = 0
    /\ isMountedRef = TRUE
    /\ fetchItemPc = [v \in Visits |-> "idle"]
    /\ fetchItemId = [v \in Visits |-> 0]
    /\ itemState = NoItem
    /\ itemLoading = TRUE
    /\ itemError = NoError

DetailInitVars ==
    /\ ViewInitVars
    /\ idPc = "idle"
    /\ idParam = << >>
    /\ idRes = NoResponse
    /\ idFileRead = FALSE
    /\ postBody = NoBody
    /\ postRes = NoResponse

(***************************************************************************)
(* DataContext.js fetchItems and the items view that calls it.  The view   *)
(* runs loadItems() when it mounts and whenever the query changes; load l  *)
(* calls fetchItems(params) (call 2l-1) and, when that call throws,        *)
(* fetchItemsSimple() (call 2l).  A call runs without interruption between *)
(* two awaits; what a fetch resolves to is not under the client's control. *)
(* The four states set from a response (items, allItems, pagination,       *)
(* searchMetadata) are always set together and are kept as one value: the  *)
(* call that set them and the branch it did so in.                         *)
(***************************************************************************)
Loads == 1..MaxLoads

Calls == 1..(2 * MaxLoads)

MainCall(l) == (2 * l) - 1

SimpleCall(l) == 2 * l

NoRequests == [probe |-> 0, enhanced |-> 0, legacy |-> 0, fellBack |-> "no"]

NothingShown == [by |-> 0, branch |-> "none"]

CancelPreviousForgotten(flags, active) == flags

\* if (activeRequestRef.current) activeRequestRef.current.cancelled = true
CancelPrevious(flags, active) ==
    IF active # 0 THEN [flags EXCEPT ![active] = TRUE] ELSE flags

\* fetchItems up to await checkForSearch(), which sends the probe
StartFetch(c) ==
    /\ cancelled' = [CancelPrevious(cancelled, activeRequestRef) EXCEPT ![c] = FALSE]
    /\ activeRequestRef' = c
    /\ loading' = TRUE
    /\ error' = 0
    /\ fetchPc' = [fetchPc EXCEPT ![c] = "probe"]
    /\ sent' = [sent EXCEPT ![c].probe = 1]
    /\ UNCHANGED shown

\* the inner catch and the code after it up to await fetch(url) of the fallback
FallBack(c, why) ==
    /\ fetchPc' = [fetchPc EXCEPT ![c] = "legacy"]
    /\ sent' = [sent EXCEPT ![c].legacy = @ + 1, ![c].fellBack = why]
    /\ UNCHANGED <<cancelled, activeRequestRef, isMounted, shown, loading, error>>

\* return, then the finally block
Return(c) ==
    /\ fetchPc' = [fetchPc EXCEPT ![c] = "returned"]
    /\ loading' = IF cancelled[c] THEN loading ELSE FALSE
    /\ UNCHANGED <<cancelled, activeRequestRef, isMounted, error, sent>>

\* the outer catch, which rethrows, then the finally block
Throw(c) ==
    /\ fetchPc' = [fetchPc EXCEPT ![c] = "threw"]
    /\ error' = IF cancelled[c] THEN error ELSE c
    /\ loading' = IF cancelled[c] THEN loading ELSE FALSE
    /\ UNCHANGED <<cancelled, activeRequestRef, isMounted, shown, sent>>

\* the effect of the items view that runs loadItems()
LoadItems(l) ==
    /\ isMounted
    /\ fetchPc[MainCall(l)] = "idle"
    /\ \A earlier \in 1..(l - 1) : fetchPc[MainCall(earlier)] # "idle"
    /\ StartFetch(MainCall(l))
    /\ UNCHANGED <<itemsVars, statsVars, detailVars, isMounted>>

\* checkForSearch() settles: response.ok, or false when the fetch was rejected
ProbeDone(c) ==
    /\ fetchPc[c] = "probe"
    /\ \E hasEnhancedBackend \in BOOLEAN :
          IF hasEnhancedBackend
          THEN /\ fetchPc' = [fetchPc EXCEPT ![c] = "enhanced"]
               /\ sent' = [sent EXCEPT ![c].enhanced = @ + 1]
               /\ UNCHANGED <<cancelled, activeRequestRef, isMounted, shown, loading, error>>
          ELSE FallBack(c, "probe")
    /\ UNCHANGED <<itemsVars, statsVars, detailVars>>

\* fetch(url) of the enhanced request settles
EnhancedDone(c) ==
    /\ fetchPc[c] = "enhanced"
    /\ \E outcome \in {"rejected", "not ok", "ok"} :
          CASE outcome = "rejected" -> FallBack(c, "enhanced")
            [] cancelled[c]         -> Return(c) /\ UNCHANGED shown
            [] outcome = "not ok"   -> FallBack(c, "enhanced")
            [] OTHER                ->
                 /\ fetchPc' = [fetchPc EXCEPT ![c] = "enhancedJson"]
                 /\ UNCHANGED <<cancelled, activeRequestRef, isMounted, shown, loading,
                                error, sent>>
    /\ UNCHANGED <<itemsVars, statsVars, detailVars>>

\* res.json() of the enhanced response settles
EnhancedJsonDone(c) ==
    /\ fetchPc[c] = "enhancedJson"
    /\ \E outcome \in {"rejected", "enhanced shape", "other shape"} :
          CASE outcome = "rejected"       -> FallBack(c, "enhanced")
            [] cancelled[c]               -> Return(c) /\ UNCHANGED shown
            [] outcome = "enhanced shape" ->
                 /\ shown' = [by |-> c, branch |-> "enhanced"]
                 /\ Return(c)
            [] OTHER                      -> FallBack(c, "enhanced")
    /\ UNCHANGED <<itemsVars, statsVars, detailVars>>

\* fetch(url) of the fallback settles
LegacyDone(c) ==
    /\ fetchPc[c] = "legacy"
    /\ \E outcome \in {"rejected", "not ok", "ok"} :
          CASE outcome = "rejected" -> Throw(c)
            [] cancelled[c]         -> Return(c) /\ UNCHANGED shown
            [] outcome = "not ok"   -> Throw(c)
            [] OTHER                ->
                 /\ fetchPc' = [fetchPc EXCEPT ![c] = "legacyJson"]
                 /\ UNCHANGED <<cancelled, activeRequestRef, isMounted, shown, loading,
                                error, sent>>
    /\ UNCHANGED <<itemsVars, statsVars, detailVars>>

\* res.json() of the fallback response settles
LegacyJsonDone(c) ==
    /\ fetchPc[c] = "legacyJson"
    /\ \E outcome \in {"rejected", "ok"} :
          CASE outcome = "rejected" -> Throw(c)
            [] cancelled[c]         -> Return(c) /\ UNCHANGED shown
            [] OTHER                ->
                 /\ shown' = [by |-> c, branch |-> "mirror"]
                 /\ Return(c)
    /\ UNCHANGED <<itemsVars, statsVars, detailVars>>

RetryAlways(mounted) == TRUE

\* if (isMountedRef.current) in the catch block of loadItems
RetryIfMounted(mounted) == mounted

\* the catch block of loadItems: fetchItemsSimple() once, if the view is mounted
CatchLoad(l) ==
    /\ fetchPc[MainCall(l)] = "threw"
    /\ fetchPc[SimpleCall(l)] = "idle"
    /\ IF RetryIfMounted(isMounted)
       THEN StartFetch(SimpleCall(l))
       ELSE /\ fetchPc' = [fetchPc EXCEPT ![SimpleCall(l)] = "skipped"]
            /\ UNCHANGED <<cancelled, activeRequestRef, shown, loading, error, sent>>
    /\ UNCHANGED <<itemsVars, statsVars, detailVars, isMounted>>

\* the items view unmounts: its effect cleanups set isMountedRef.current = false
\* and cancel the debounced search; cleanup() of the context is not called
Unmount ==
    /\ isMounted
    /\ isMounted' = FALSE
    /\ UNCHANGED <<itemsVars, statsVars, detailVars, fetchPc, cancelled, activeRequestRef,
                   shown, loading, error, sent>>

\* cleanup() of the context, which any consumer of useData() may call; a call
\* that finds activeRequestRef.current null does nothing
Cleanup ==
    /\ activeRequestRef # 0
    /\ cancelled' = [cancelled EXCEPT ![activeRequestRef] = TRUE]
    /\ activeRequestRef' = 0
    /\ UNCHANGED <<itemsVars, statsVars, detailVars, fetchPc, isMounted, shown, loading,
                   error, sent>>

ClientInitVars ==
    /\ fetchPc = [c \in Calls |-> "idle"]
    /\ cancelled = [c \in Calls |-> FALSE]
    /\ activeRequestRef = 0
    /\ isMounted = TRUE
    /\ shown = NothingShown
    /\ loading = FALSE
    /\ error = 0
    /\ sent = [c \in Calls |-> NoRequests]

StatsInitVars ==
    /\ statsCache = EmptyCache
    /\ now = StartTime
    /\ statsPc = [r \in Requests |-> "idle"]
    /\ statsModTime = [r \in Requests |-> 0]
    /\ statsRaw = [r \in Requests |-> NoRaw]
    /\ staleFill = FALSE
    /\ statsRes = [r \in Requests |-> NoResponse]
    /\ fileChanges = 0
    /\ lastStatsBody = Undefined
    /\ quiet = FALSE

ItemsInitVars ==
    /\ itemsPc = "idle"
    /\ itemsQuery = NoQuery
    /\ itemsRes = NoResponse

Init ==
    /\ dataFile \in FileStates
    /\ statsFile = File("absent", << >>, 0)
    /\ ItemsInitVars
    /\ StatsInitVars
    /\ DetailInitVars
    /\ ClientInitVars

Next ==
    \/ ItemsRequest
    \/ ItemsRespond
    \/ ItemsClose

Spec == Init /\ [][Next]_vars

StatsInit ==
    /\ dataFile = File("absent", << >>, 0)
    /\ \E c \in StatsFileContents : statsFile = File(c.state, c.items, StartTime - TickMs)
    /\ ItemsInitVars
    /\ StatsInitVars
    /\ DetailInitVars
    /\ ClientInitVars

StatsNext ==
    \/ \E r \in Requests : StatsStart(r)
    \/ \E r \in Requests : StatsStatDone(r)
    \/ \E r \in Requests : StatsReadDone(r)
    \/ StatsCacheDelete
    \/ FileChange
    \/ Tick

StatsSpec == StatsInit /\ [][StatsNext]_vars

RefillNext ==
    \/ \E r \in Requests : StatsStart(r)
    \/ \E r \in Requests : StatsStatDone(r)
    \/ \E r \in Requests : StatsFileRead(r)
    \/ \E r \in Requests : StatsParse(r)
    \/ StatsCacheDelete
    \/ FileChange

\* stats.js within one TTL, the handler resuming some time after fs.readFile has read
RefillSpec == StatsInit /\ [][RefillNext]_vars

DetailNext ==
    \/ IdRequest
    \/ IdRespond
    \/ IdClose
    \/ PostRequest
    \/ PostClose

\* items.js again, for the single-item and creation requests
DetailSpec == Init /\ [][DetailNext]_vars

ClientInit ==
    /\ dataFile = File("absent", << >>, 0)
    /\ statsFile = File("absent", << >>, 0)
    /\ ItemsInitVars
    /\ StatsInitVars
    /\ DetailInitVars
    /\ ClientInitVars

ClientNext ==
    \/ \E l \in Loads : LoadItems(l)
    \/ \E c \in Calls : ProbeDone(c)
    \/ \E c \in Calls : EnhancedDone(c)
    \/ \E c \in Calls : EnhancedJsonDone(c)
    \/ \E c \in Calls : LegacyDone(c)
    \/ \E c \in Calls : LegacyJsonDone(c)
    \/ \E l \in Loads : CatchLoad(l)
    \/ Unmount

ClientSpec == ClientInit /\ [][ClientNext]_vars

ViewNext ==
    \/ \E v \in Visits : ShowItem(v)
    \/ ShowWithoutId
    \/ \E v \in Visits : FetchItemDone(v)
    \/ \E v \in Visits : FetchItemJsonDone(v)
    \/ UnmountDetail

\* ItemDetail.js
ViewSpec == ClientInit /\ [][ViewNext]_vars

ContextNext ==
    \/ \E l \in Loads : LoadItems(l)
    \/ \E c \in Calls : ProbeDone(c)
    \/ \E c \in Calls : EnhancedDone(c)
    \/ \E c \in Calls : EnhancedJsonDone(c)
    \/ \E c \in Calls : LegacyDone(c)
    \/ \E c \in Calls : LegacyJsonDone(c)
    \/ \E l \in Loads : CatchLoad(l)
    \/ Unmount
    \/ Cleanup

\* the context with every function it hands out, cleanup() included
ContextSpec == ClientInit /\ [][ContextNext]_vars

\* items.js reads <root>/data/items.json (dataFile) and stats.js reads
\* <root>/backend/data/items.json (statsFile): what is at one path says
\* nothing about the other
StoreInit ==
    /\ dataFile \in FileStates
    /\ \E c \in StatsFileContents : statsFile = File(c.state, c.items, StartTime - TickMs)
    /\ ItemsInitVars
    /\ StatsInitVars
    /\ DetailInitVars
    /\ ClientInitVars

\* GET /api/items without any query parameter
ItemsRequestAll ==
    /\ itemsPc = "idle"
    /\ itemsPc' = "reading"
    /\ itemsQuery' = NoQuery
    /\ UNCHANGED <<dataFile, itemsRes, statsVars, detailVars, clientVars>>

StoreNext ==
    \/ ItemsRequestAll
    \/ ItemsRespond
    \/ ItemsClose
    \/ \E r \in Requests : StatsStart(r)
    \/ \E r \in Requests : StatsStatDone(r)
    \/ \E r \in Requests : StatsReadDone(r)

\* both routers of the backend over files that nothing else writes
StoreSpec == StoreInit /\ [][StoreNext]_vars

(***************************************************************************)
(* Properties of GET /api/items.                                           *)
(***************************************************************************)
\* t occurs in s as a contiguous block
IsSubstring(t, s) == \E i \in 1..(Len(s) + 1), j \in 0..Len(s) : SubSeq(s, i, j) = t

Blank(m) == ~IsDef(m) \/ Trim(Val(m)) = << >>

\* the item passes the category filter of the query
PassesCategory(item, query) ==
    \/ Blank(query.category)
    \/ /\ IsDef(item.category)
       /\ ToLowerCase(Val(item.category)) = ToLowerCase(Trim(Val(query.category)))

\* the texts of an item that the free-text search looks at
SearchTexts(item) ==
    { Val(item[f]) : f \in { g \in {"name", "category", "description"} : IsDef(item[g]) } }
      \cup { IntToString(Val(item.id)) : x \in { y \in {1} : IsDef(item.id) } }
      \cup { PriceToString(Val(item.price)) : x \in { y \in {1} : IsDef(item.price) } }

\* the item passes the free-text search of the query
PassesSearch(item, query) ==
    \/ Blank(query.q)
    \/ \E text \in SearchTexts(item) :
          IsSubstring(ToLowerCase(Trim(Val(query.q))), ToLowerCase(text))

Answered == itemsPc = "done" /\ itemsRes.status = 200

\* the collection the answered request read
DataRead == readData(dataFile).data

\* the positions of the collection that pass the category filter and the search
KeptPositions(data, query) ==
    { i \in 1..Len(data) : PassesCategory(data[i], query) /\ PassesSearch(data[i], query) }

\* C1: in every GET /api/items response pagination.totalItems equals
\* search.resultsFound, and both equal the number of items left after the
\* category filter and the free-text search, before the page is cut out.
C1_TotalItemsIsResultsFound ==
    Answered =>
        /\ itemsRes.body.pagination.totalItems = itemsRes.body.search.resultsFound
        /\ itemsRes.body.search.resultsFound
             = Cardinality(KeptPositions(DataRead, itemsQuery))

\* a response whose filter and search removed some items, but not all
C1_Witness ==
    /\ Answered
    /\ itemsRes.body.search.resultsFound = 2
    /\ Len(DataRead) = 3
    /\ Len(itemsRes.body.items) = 1

\* the sequence the handler cuts the page from
FilteredSorted(data, query) ==
    sortItems(SearchStep(CategoryStep(data, query.category), query.q),
              SortByOf(query), SortOrderOf2(query))

\* C2: the number of items returned is min(L, max(0, resultsFound - (P-1)*L)) for
\* the reported itemsPerPage L and currentPage P, and the items are the elements
\* at positions (P-1)*L .. (P-1)*L+L-1 of the filtered, sorted sequence.
C2_PageIsTheWindow ==
    Answered =>
        LET body   == itemsRes.body
            L      == body.pagination.itemsPerPage
            P      == body.pagination.currentPage
            sorted == FilteredSorted(DataRead, itemsQuery)
        IN  /\ Len(body.items) = Min(L, Max(0, body.search.resultsFound - ((P - 1) * L)))
            /\ \A k \in 1..Len(body.items) : body.items[k] = sorted[((P - 1) * L) + k]

\* the second page of three results, two per page
C2_Witness ==
    /\ Answered
    /\ itemsRes.body.pagination.currentPage = 2
    /\ itemsRes.body.pagination.itemsPerPage = 2
    /\ itemsRes.body.search.resultsFound = 3
    /\ Len(itemsRes.body.items) = 1

\* C3: when q trims to a non-empty string the search step keeps exactly the items
\* of which a name, category, description, stringified id or stringified price
\* contains the trimmed, lowercased q ignoring case; otherwise it removes nothing.
C3_SearchKeepsExactlyTheMatches ==
    Answered =>
        \A input \in { DataRead, CategoryStep(DataRead, itemsQuery.category) } :
            LET Keep(item) == PassesSearch(item, itemsQuery)
            IN  /\ SearchStep(input, itemsQuery.q) = SelectSeq(input, Keep)
                /\ Blank(itemsQuery.q) => SearchStep(input, itemsQuery.q) = input

\* a search that matches only through the stringified price 10.5
C3_Witness ==
    /\ Answered
    /\ itemsQuery.q = Some(<<".", "5">>)
    /\ Len(DataRead) = 3
    /\ itemsRes.body.search.resultsFound = 1

\* the sort key of the claim: a missing string counts as the empty string
KeyOf(item, field) ==
    IF IsDef(item[field]) THEN ToLowerCase(Val(item[field])) ELSE << >>

KeyLess(a, b, field) ==
    IF field \in NumberFields
    THEN IsDef(a[field]) /\ IsDef(b[field]) /\ Val(a[field]) < Val(b[field])
    ELSE StrLess(KeyOf(a, field), KeyOf(b, field))

KeyEqual(a, b, field) ==
    IF field \in NumberFields THEN a[field] = b[field]
    ELSE KeyOf(a, field) = KeyOf(b, field)

PositionIn(seq, x) == CHOOSE i \in 1..Len(seq) : seq[i] = x

\* C4: for every valid sortBy the sorted sequence is a permutation of the filtered
\* items, non-decreasing in the sort key for asc and non-increasing for desc
\* (strings compared ignoring case), and items with equal keys keep their input
\* order in both directions.
C4_SortedAndStable ==
    (Answered /\ SortByOf(itemsQuery) \in validSortFields) =>
        LET field    == SortByOf(itemsQuery)
            desc     == SortOrderOf(SortOrderOf2(itemsQuery)) = "desc"
            filtered == SearchStep(CategoryStep(DataRead, itemsQuery.category),
                                   itemsQuery.q)
            sorted   == FilteredSorted(DataRead, itemsQuery)
        IN  /\ Len(sorted) = Len(filtered)
            /\ \A i \in 1..Len(filtered) : \E j \in 1..Len(sorted) : sorted[j] = filtered[i]
            /\ \A i, j \in 1..Len(sorted) :
                  i < j =>
                     /\ ~desc => ~KeyLess(sorted[j], sorted[i], field)
                     /\ desc => ~KeyLess(sorted[i], sorted[j], field)
                     /\ KeyEqual(sorted[i], sorted[j], field)
                           => PositionIn(filtered, sorted[i]) < PositionIn(filtered, sorted[j])

\* C5: the effective page size is always within 1..100; limit=0 or a non-numeric
\* limit yields the default 10, and a limit greater than 100 yields 100.
C5_LimitClamped ==
    Answered =>
        LET L == itemsRes.body.pagination.itemsPerPage
            n == ParseInt(LimitOf(itemsQuery))
        IN  /\ L \in 1..100
            /\ (~IsDef(n) \/ n = Some(0)) => L = 10
            /\ (IsDef(n) /\ Val(n) > 100) => L = 100

\* limit=200 is served with 100 items per page
C5_Witness ==
    /\ Answered
    /\ itemsQuery.limit = Some(<<"2", "0", "0">>)
    /\ itemsRes.body.pagination.itemsPerPage = 100

Readable == dataFile.state \in {"ok", "absent"}

SortByIsInvalid == SortByOf(itemsQuery) \notin validSortFields

PageIsInvalid ==
    LET n == ParseInt(PageOf(itemsQuery)) IN ~IsDef(n) \/ Val(n) < 1

LimitIsOutOfRange ==
    LET n == ParseInt(LimitOf(itemsQuery)) IN ~IsDef(n) \/ Val(n) < 1 \/ Val(n) > 100

\* the request answered with sortBy=id instead
WithSortById == [itemsQuery EXCEPT !.sortBy = Some("id")]

\* C6 as stated: an invalid sortBy, an out-of-range limit and a non-positive page
\* fall back to their defaults (id, 10, 1) and never produce an error; a request
\* with an invalid sortBy returns the items of the same request with sortBy=id.
C6_FallBackToDefaults ==
    (itemsPc = "done" /\ Readable) =>
        /\ itemsRes.status = 200
        /\ SortByIsInvalid => itemsRes.body.items = ItemsBody(DataRead, WithSortById).items
        /\ PageIsInvalid => itemsRes.body.pagination.currentPage = 1
        /\ LimitIsOutOfRange => itemsRes.body.pagination.itemsPerPage = 10

\* C6 amended: as above, but only a limit of 0 or a non-numeric limit falls back
\* to the default 10; a negative limit is served as 1 and a limit above 100 as 100.
C6_FallBackOrClamp ==
    (itemsPc = "done" /\ Readable) =>
        LET n == ParseInt(LimitOf(itemsQuery))
            L == itemsRes.body.pagination.itemsPerPage
        IN  /\ itemsRes.status = 200
            /\ SortByIsInvalid =>
                  /\ itemsRes.body.items = ItemsBody(DataRead, WithSortById).items
                  /\ itemsRes.body.pagination = ItemsBody(DataRead, WithSortById).pagination
            /\ PageIsInvalid => itemsRes.body.pagination.currentPage = 1
            /\ (~IsDef(n) \/ n = Some(0)) => L = 10
            /\ (IsDef(n) /\ Val(n) < 0) => L = 1
            /\ (IsDef(n) /\ Val(n) > 100) => L = 100

\* an unknown sortBy with descending order over three items, served in id order
C6_Witness ==
    /\ Answered
    /\ itemsQuery.sortBy = Some("bogus")
    /\ itemsQuery.sortOrder = Some(<<"D", "E", "S", "C">>)
    /\ Len(itemsRes.body.items) = 3
    /\ Val(itemsRes.body.items[1].id) > Val(itemsRes.body.items[2].id)
    /\ Val(itemsRes.body.items[2].id) > Val(itemsRes.body.items[3].id)

\* the request answered with page=1 instead
WithPageOne == [itemsQuery EXCEPT !.page = Some(<<"1">>)]

\* C7: a page below 1 or not a number is served as page 1; a page greater than
\* totalPages yields no items, currentPage equal to the requested page and
\* totalPages equal to ceil(resultsFound / itemsPerPage).
C7_PageClampedBelowOnly ==
    Answered =>
        LET n    == ParseInt(PageOf(itemsQuery))
            body == itemsRes.body
        IN  /\ PageIsInvalid =>
                  /\ body.pagination.currentPage = 1
                  /\ body.items = ItemsBody(DataRead, WithPageOne).items
            /\ (IsDef(n) /\ Val(n) > body.pagination.totalPages /\ Val(n) >= 1) =>
                  /\ body.items = << >>
                  /\ body.pagination.currentPage = Val(n)
                  /\ body.pagination.totalPages
                       = CeilDiv(body.search.resultsFound, body.pagination.itemsPerPage)

\* page 2 of a single page of results
C7_Witness ==
    /\ Answered
    /\ itemsQuery.page = Some(<<"2">>)
    /\ itemsRes.body.pagination.totalPages = 1
    /\ itemsRes.body.search.resultsFound = 3
    /\ itemsRes.body.items = << >>
    /\ itemsRes.body.pagination.currentPage = 2

\* C8: an absent backing file is answered 200 with items=[] and totalItems=0; any
\* other read or parse failure is answered with a 500 error.
C8_OnlyAbsenceIsTolerated ==
    itemsPc = "done" =>
        /\ dataFile.state = "absent" =>
              /\ itemsRes.status = 200
              /\ itemsRes.body.items = << >>
              /\ itemsRes.body.pagination.totalItems = 0
        /\ dataFile.state \in {"denied", "corrupt"} => itemsRes.status = 500
        /\ dataFile.state = "ok" => itemsRes.status = 200

\* a request answered while the backing file holds no JSON
C8_Witness ==
    /\ itemsPc = "done"
    /\ dataFile.state = "corrupt"
    /\ itemsRes.status = 500

(***************************************************************************)
(* Properties of GET /api/stats.                                           *)
(***************************************************************************)
\* request r leaves the handler's entry in this step
Arrives(r) == statsPc[r] = "idle" /\ statsPc'[r] # "idle"

\* request r is answered in this step
AnsweredNow(r) == statsPc[r] # "done" /\ statsPc'[r] = "done"

\* C9: a GET /api/stats that arrives within the TTL of the cache, after an
\* earlier read was answered and with no change of the backing file and no
\* invalidation since, returns the value the earlier read returned, and does so
\* without a recompute: no fs.stat, no fs.readFile, no write to the cache.
C9_SecondReadIsServedFromCache ==
    [][ \A r \in Requests :
          ( /\ Arrives(r)
            /\ IsDef(lastStatsBody)
            /\ quiet
            /\ now - statsCache.timestamp < CACHE_TTL )
          => /\ statsPc'[r] = "done"
             /\ statsRes'[r] = StatsAnswer(Val(lastStatsBody), TRUE)
             /\ statsCache' = statsCache ]_vars

\* a read that computed the stats of two items and a later read, half a TTL
\* after it, that was served the same value from the cache
C9_Witness ==
    \E r1, r2 \in Requests :
        /\ statsPc[r1] = "done" /\ statsRes[r1].status = 200 /\ ~statsRes[r1].fromCache
        /\ statsPc[r2] = "done" /\ statsRes[r2].status = 200 /\ statsRes[r2].fromCache
        /\ statsRes[r1].body = statsRes[r2].body
        /\ statsRes[r2].body.total = 2
        /\ now > statsCache.timestamp
        /\ quiet

\* C10: a cached value is served only if the backing file's current modification
\* time equals statsCache.fileModTime; when they differ, GET /api/stats
\* recomputes and refills the cache before responding, even within the TTL.
C10_CacheServedOnlyIfModTimeMatches ==
    [][ \A r \in Requests :
          ( /\ AnsweredNow(r)
            /\ statsRes'[r].status = 200
            /\ statsRes'[r].fromCache )
          => getFileModTime(statsFile) = statsCache.fileModTime ]_vars

\* the file was changed after the cache was last filled (statsFile.mtime is the
\* time of the last change of the path, also of a removal)
ChangedSinceFill == statsCache.timestamp < statsFile.mtime

\* C11: a change of the backing file and DELETE /api/stats/cache have the same
\* effect: the cache is data=null, timestamp=0, fileModTime=0 whatever its age,
\* so the next GET /api/stats recomputes instead of serving the previous value.
C11_ChangeAndResetForceRecompute ==
    [][ /\ (statsCache' # statsCache /\ UNCHANGED statsPc) => statsCache' = EmptyCache
        /\ \A r \in Requests :
             (Arrives(r) /\ (ChangedSinceFill \/ ~quiet))
               => statsPc'[r] = "stat" ]_vars

\* C12: a recompute that finds the backing file absent answers
\* {total:0, averagePrice:0} with status 200 and fills the cache with it, and a
\* read that arrives within the TTL of that fill, the file still absent, is
\* served that value from the cache without a recompute.
C12_AbsentFileIsCachedAsEmpty ==
    [][ \A r \in Requests :
          /\ (statsPc[r] = "read" /\ AnsweredNow(r) /\ statsFile.state = "absent")
               => /\ statsRes'[r] = StatsAnswer(emptyStats, FALSE)
                  /\ statsCache'.data = Some(emptyStats)
                  /\ statsCache'.timestamp = now
          /\ ( /\ Arrives(r)
               /\ statsFile.state = "absent"
               /\ statsCache.data = Some(emptyStats)
               /\ now - statsCache.timestamp <= CACHE_TTL )
               => /\ statsRes'[r] = StatsAnswer(emptyStats, TRUE)
                  /\ statsPc'[r] = "done"
                  /\ statsCache' = statsCache ]_vars

\* the file is absent; one read recomputed and a later one, a full TTL after it,
\* was served the empty stats from the cache
C12_Witness ==
    \E r1, r2 \in Requests :
        /\ statsFile.state = "absent"
        /\ statsRes[r1] = StatsAnswer(emptyStats, FALSE)
        /\ statsRes[r2] = StatsAnswer(emptyStats, TRUE)
        /\ statsCache.data = Some(emptyStats)
        /\ now - statsCache.timestamp = CACHE_TTL

\* C13: a recompute that fails for another reason than an absent file is answered
\* with an error and leaves data, timestamp and fileModTime of the cache as they
\* were; a GET /api/stats arriving when requests have failed and none has
\* succeeded starts a recompute again.
C13_FailureIsNotCached ==
    [][ \A r \in Requests :
          /\ (statsPc[r] = "read" /\ AnsweredNow(r) /\ statsFile.state = "corrupt")
               => /\ statsRes'[r].status = 500
                  /\ statsCache' = statsCache
          /\ ( /\ Arrives(r)
               /\ \E r0 \in Requests : statsRes[r0].status = 500
               /\ \A r0 \in Requests : statsRes[r0].status # 200 )
               => statsPc'[r] = "stat" ]_vars

\* the first request failed on a file that is not JSON, nothing was cached, and
\* the second request is recomputing
C13_Witness ==
    /\ statsFile.state = "corrupt"
    /\ statsPc[1] = "done" /\ statsRes[1].status = 500
    /\ statsPc[2] = "read"
    /\ statsCache = EmptyCache

(***************************************************************************)
(* Properties of GET /api/items/:id and POST /api/items.                   *)
(***************************************************************************)
\* the string is the decimal notation of an integer
IsIntegerString(id) ==
    LET digits == IF id # << >> /\ Head(id) = "-" THEN Tail(id) ELSE id
    IN  digits # << >> /\ \A k \in 1..Len(digits) : IsDigit(digits[k])

\* the integer an integer string denotes
IntegerOf(id) == Val(ParseInt(id))

IdAnswered == idPc = "done"

\* C14: with the collection read, GET /api/items/:id answers 400 'Invalid item ID'
\* whenever :id is not an integer, 404 'Item not found' whenever :id is an integer
\* that no item has, and otherwise the item whose id equals :id.
C14_IdAnswers ==
    (IdAnswered /\ Readable) =>
        LET data == readData(dataFile).data
        IN  IF ~IsIntegerString(idParam)
            THEN idRes = ErrorResponse(400, "Invalid item ID")
            ELSE IF \A i \in 1..Len(data) : data[i].id # Some(IntegerOf(idParam))
                 THEN idRes = ErrorResponse(404, "Item not found")
                 ELSE /\ idRes.status = 200
                      /\ idRes.body.id = Some(IntegerOf(idParam))
                      /\ \E i \in 1..Len(data) : data[i] = idRes.body

\* the body of a POST /api/items passes validation: a name that is not empty
ValidBody(body) == IsDef(body.name) /\ Trim(Val(body.name)) # << >>

PostAnswered == postRes # NoResponse

\* C15: a request that fails validation (GET /api/items/:id with a non-integer
\* :id, POST /api/items without a name) is answered 400 and the backing file has
\* not been read for it, whatever the state of the file.
C15_ValidationBeforeIO ==
    /\ (IdAnswered /\ ~IsIntegerString(idParam))
         => (idRes.status = 400 /\ ~idFileRead)
    /\ (PostAnswered /\ ~ValidBody(postBody))
         => postRes.status = 400

\* C16: a POST /api/items with a valid body is answered 201 with the created
\* item, which is then the last item of the collection, and GET /api/items/:id
\* with the returned id answers that same item.
C16_CreateThenFetch ==
    (PostAnswered /\ ValidBody(postBody)) =>
        /\ postRes.status = 201
        /\ dataFile.state = "ok"
        /\ dataFile.items # << >>
        /\ dataFile.items[Len(dataFile.items)] = postRes.body
        /\ (IdAnswered /\ idParam = IntToString(Val(postRes.body.id)))
             => idRes = [status |-> 200, body |-> postRes.body]

(***************************************************************************)
(* Properties of the client (DataContext.js and the items view).           *)
(***************************************************************************)
\* C17: for every collection and every query, processItemsClientSide followed by
\* the fallback pagination of fetchItems yields the item sequence, the pagination
\* metadata and the resultsFound that the server answers for that collection and
\* query.
C17_MirrorEqualsServer ==
    Answered =>
        ClientFallback(DataRead, itemsQuery)
          = [items        |-> itemsRes.body.items,
             pagination   |-> itemsRes.body.pagination,
             resultsFound |-> itemsRes.body.search.resultsFound]

\* call c takes a step of its own after it was started
Resumes(c) == fetchPc[c] # "idle" /\ fetchPc'[c] # fetchPc[c]

\* call c is started in this step
Starts(c) == fetchPc[c] = "idle" /\ fetchPc'[c] = "probe"

\* C18: starting a fetchItems call marks the previous call's token as cancelled,
\* and a call whose token is cancelled writes none of items, allItems, pagination,
\* searchMetadata, error, loading; so whoever sets the displayed result is the
\* call started last, never an older one resolving late.
C18_CancelledCallNeverWrites ==
    [][ \A c \in Calls :
          /\ (Starts(c) /\ activeRequestRef # 0) => cancelled'[activeRequestRef]
          /\ (Resumes(c) /\ cancelled[c]) => UNCHANGED <<shown, loading, error>>
          /\ (Resumes(c) /\ shown' # shown) => (shown'.by = c /\ activeRequestRef = c)
      ]_vars

\* the first call got its enhanced response after the second call had cancelled
\* it, and what is displayed is the second call's result
C18_Witness ==
    /\ cancelled[MainCall(1)]
    /\ fetchPc[MainCall(1)] = "returned"
    /\ sent[MainCall(1)] = [probe |-> 1, enhanced |-> 1, legacy |-> 0, fellBack |-> "no"]
    /\ fetchPc[MainCall(2)] = "returned"
    /\ shown = [by |-> MainCall(2), branch |-> "enhanced"]
    /\ ~loading

\* C19: unmounting the items view cancels the token of the active fetchItems call,
\* and no state is updated by a call that resolves after the unmount.
C19_UnmountCancelsActiveRequest ==
    [][ /\ (isMounted /\ ~isMounted' /\ activeRequestRef # 0)
             => cancelled'[activeRequestRef]
        /\ (~isMounted /\ \E c \in Calls : Resumes(c))
             => UNCHANGED <<shown, loading, error>> ]_vars

\* C20 as stated: for one query of the items view at most one enhanced request is
\* made, then at most one legacy request and only after the probe or the enhanced
\* attempt failed, and a query that failed is not attempted again automatically.
C20_OneFallbackPerQuery ==
    \A l \in Loads :
        LET main   == sent[MainCall(l)]
            simple == sent[SimpleCall(l)]
        IN  /\ main.enhanced + simple.enhanced <= 1
            /\ main.legacy + simple.legacy <= 1
            /\ main.legacy = 1 => main.fellBack \in {"probe", "enhanced"}
            /\ fetchPc[SimpleCall(l)] \in {"idle", "skipped"}

\* C20 as amended: every fetchItems call makes at most one probe, one enhanced
\* request and one legacy request, the legacy one only after the probe or the
\* enhanced attempt failed; when the call of a query throws, the view calls
\* fetchItemsSimple() once if it is still mounted, and a failure of that call is
\* not followed by another attempt.
C20_OneFallbackPerCallOneSimpleRetry ==
    [][ /\ \A c \in Calls :
             /\ sent'[c].probe <= 1 /\ sent'[c].enhanced <= 1 /\ sent'[c].legacy <= 1
             /\ sent'[c].legacy = 1 => sent'[c].fellBack \in {"probe", "enhanced"}
             /\ sent'[c].fellBack = "probe" => sent'[c].enhanced = 0
             /\ sent'[c].fellBack = "enhanced" => sent'[c].enhanced = 1
             /\ (fetchPc[c] \in {"returned", "threw", "skipped"}) => sent'[c] = sent[c]
        /\ \A l \in Loads :
             Starts(SimpleCall(l)) => (isMounted /\ fetchPc[MainCall(l)] = "threw") ]_vars

\* a query whose enhanced and legacy requests failed, followed by the requests of
\* fetchItemsSimple(), which failed too
C20_Witness ==
    /\ sent[MainCall(1)] = [probe |-> 1, enhanced |-> 1, legacy |-> 1, fellBack |-> "enhanced"]
    /\ fetchPc[MainCall(1)] = "threw"
    /\ sent[SimpleCall(1)] = [probe |-> 1, enhanced |-> 1, legacy |-> 1, fellBack |-> "enhanced"]
    /\ fetchPc[SimpleCall(1)] = "threw"

(***************************************************************************)
(* Further properties of GET /api/stats.                                   *)
(***************************************************************************)
\* C21: the three fields of the cache are always written together, by one
\* refill: every step that changes the cache either resets it or leaves in
\* it the data, the time and the modification time of the request that is
\* answered in that step.
C21_CacheFieldsWrittenTogether ==
    [][ \A r \in Requests :
          (AnsweredNow(r) /\ statsCache' # statsCache)
          => /\ IsDef(statsCache'.data)
             /\ statsCache'.data = Some(statsRes'[r].body)
             /\ statsCache'.timestamp = now
             /\ statsCache'.fileModTime = statsModTime[r] ]_vars

\* the sum of the prices of items, an item without a number as price adding 0
PriceSum(items) ==
    LET partial[i \in 0..Len(items)] ==
          IF i = 0 THEN 0
          ELSE partial[i - 1] + (IF IsDef(items[i].price) THEN Val(items[i].price) ELSE 0)
    IN  partial[Len(items)]

\* C22: a recompute answers with total = the number of items of the file and
\* with averagePrice = 0 for an empty file, and otherwise the hundredth
\* nearest to (sum of the prices / total), where an item without a number as
\* price adds 0 to the sum and 1 to total.
C22_TotalAndAveragePrice ==
    [][ \A r \in Requests :
          (statsPc[r] = "read" /\ AnsweredNow(r) /\ statsFile.state = "ok")
          => LET body == statsRes'[r].body
                 n    == Len(statsFile.items)
                 sum  == PriceSum(statsFile.items)
             IN  /\ statsRes'[r].status = 200
                 /\ body.total = n
                 /\ n = 0 => body.averagePrice = 0
                 /\ n > 0 => /\ 2 * body.averagePrice * n <= (2 * sum) + n
                             /\ 2 * body.averagePrice * n > (2 * sum) - n ]_vars

\* three items, one of them without a price: 15.50 / 3 is answered as 5.17
C22_Witness ==
    \E r \in Requests :
        /\ statsPc[r] = "done"
        /\ statsRes[r] = StatsAnswer([total |-> 3, averagePrice |-> 517], FALSE)
        /\ statsFile.state = "ok"
        /\ Len(statsFile.items) = 3
        /\ \E i \in 1..3 : ~IsDef(statsFile.items[i].price)

\* C25: a GET /api/stats that arrives when the age of the cache is the TTL or
\* more is not served from the cache: it goes on to recompute.
C25_CacheServedOnlyBelowTtl ==
    [][ \A r \in Requests :
          (Arrives(r) /\ IsDef(statsCache.data) /\ now - statsCache.timestamp >= CACHE_TTL)
          => statsPc'[r] = "stat" ]_vars

\* C27: no GET /api/stats is served from a cache that was filled from file
\* contents read before an invalidation that came while the recompute was
\* suspended.
C27_NoStaleFillServed ==
    [][ \A r \in Requests :
          (AnsweredNow(r) /\ statsRes'[r].status = 200 /\ statsRes'[r].fromCache)
          => ~staleFill ]_vars

(***************************************************************************)
(* Further properties of GET /api/items.                                   *)
(***************************************************************************)
\* C23: in every response totalPages is the least number of pages of
\* itemsPerPage items that hold totalItems items, hasNextPage says that
\* currentPage < totalPages, hasPrevPage that currentPage > 1, nextPage and
\* prevPage are the neighbouring page numbers when there is such a page and
\* null otherwise; when nothing is left after the filters the response has
\* no items, totalItems = 0, totalPages = 0 and hasNextPage = false.
C23_PaginationMetadataConsistent ==
    Answered =>
        LET p == itemsRes.body.pagination
        IN  /\ p.totalPages * p.itemsPerPage >= p.totalItems
            /\ p.totalPages > 0 => (p.totalPages - 1) * p.itemsPerPage < p.totalItems
            /\ p.hasNextPage <=> p.currentPage < p.totalPages
            /\ p.hasPrevPage <=> p.currentPage > 1
            /\ p.nextPage = IF p.hasNextPage THEN Some(p.currentPage + 1) ELSE Undefined
            /\ p.prevPage = IF p.hasPrevPage THEN Some(p.currentPage - 1) ELSE Undefined
            /\ KeptPositions(DataRead, itemsQuery) = { }
                 => /\ itemsRes.body.items = << >>
                    /\ p.totalItems = 0
                    /\ p.totalPages = 0
                    /\ ~p.hasNextPage

\* three items in pages of two, the second and last page being answered
C23_Witness ==
    /\ Answered
    /\ itemsRes.body.pagination.totalItems = 3
    /\ itemsRes.body.pagination.itemsPerPage = 2
    /\ itemsRes.body.pagination.currentPage = 2
    /\ itemsRes.body.pagination.totalPages = 2
    /\ itemsRes.body.pagination.prevPage = Some(1)

\* a response to a search that nothing matches
C23_WitnessNoMatch ==
    /\ Answered
    /\ DataRead # << >>
    /\ itemsRes.body.pagination.totalItems = 0

\* C24: when the sort field is name, category or createdAt, every item
\* without the field comes before every item with a non-empty value for asc
\* and after it for desc.
C24_MissingStringFieldSortsAsEmpty ==
    (Answered /\ SortByOf(itemsQuery) \in (validSortFields \cap StringFields)) =>
        LET field  == SortByOf(itemsQuery)
            desc   == SortOrderOf(SortOrderOf2(itemsQuery)) = "desc"
            sorted == FilteredSorted(DataRead, itemsQuery)
        IN  \A i, j \in 1..Len(sorted) :
               ( /\ ~IsDef(sorted[i][field])
                 /\ IsDef(sorted[j][field])
                 /\ Val(sorted[j][field]) # << >> )
               => IF desc THEN j < i ELSE i < j

\* the items of data that pass the category filter of the query, in their order
CategoryKept(data, query) ==
    LET Passes(item) == PassesCategory(item, query)
    IN  SelectSeq(data, Passes)

\* C26: the response is the one that the search, the sort and the pagination
\* give on the items whose category equals the trimmed category parameter
\* ignoring case, which are all the items when the parameter is absent or
\* has only whitespace.
C26_CategoryStepFirst ==
    Answered =>
        LET rest == ItemsBody(CategoryKept(DataRead, itemsQuery),
                              [itemsQuery EXCEPT !.category = Undefined])
        IN  /\ itemsRes.body.items = rest.items
            /\ itemsRes.body.pagination = rest.pagination
            /\ Blank(itemsQuery.category)
                 => itemsRes.body.pagination.totalItems
                      = Len(SearchStep(DataRead, itemsQuery.q))

\* category "X " kept the items of category x and X and dropped another item
C26_Witness ==
    /\ Answered
    /\ itemsQuery.category = Some(<<"X", " ">>)
    /\ ~Truthy(itemsQuery.q)
    /\ itemsRes.body.pagination.totalItems = 2
    /\ Len(DataRead) = 3

(***************************************************************************)
(* Further properties of the client and of the backend as a whole.         *)
(***************************************************************************)
\* every started fetchItems call has settled and loadItems has no
\* fetchItemsSimple() left to start
AllCallsSettled ==
    /\ \A c \in Calls : fetchPc[c] \in {"idle", "returned", "threw", "skipped"}
    /\ \A l \in Loads : ~(fetchPc[MainCall(l)] = "threw" /\ fetchPc[SimpleCall(l)] = "idle")

\* C29: when every started fetchItems call has settled and none is about to
\* be started, loading is false.  No step other than the start of a new call
\* changes loading in such a state, so a state that breaks this keeps
\* loading set for ever.
C29_LoadingClearsWhenAllSettled ==
    AllCallsSettled => ~loading

\* C30: a GET /api/stats answered by a recompute and a GET /api/items without
\* parameters, both answered over the same unchanged files, agree on the
\* number of items: total = pagination.totalItems.
C30_StatsCountTheServedCollection ==
    \A r \in Requests :
        ( /\ itemsPc = "done" /\ itemsRes.status = 200 /\ itemsQuery = NoQuery
          /\ statsPc[r] = "done" /\ statsRes[r].status = 200 /\ ~statsRes[r].fromCache )
        => statsRes[r].body.total = itemsRes.body.pagination.totalItems

\* fetchItem call v resumes in this step
ItemFetchResumes(v) == fetchItemPc[v] \in {"fetch", "json"} /\ fetchItemPc'[v] # fetchItemPc[v]

\* C28: a fetchItem call that resumes when the instance shows another route
\* id than the one the call fetched, or is unmounted, sets neither item nor
\* error nor loading.
C28_StaleFetchCommitsNothing ==
    [][ \A v \in Visits :
          (ItemFetchResumes(v) /\ (detailView # "shown" \/ fetchItemId[v] # routeId))
          => /\ itemState' = itemState
             /\ itemError' = itemError
             /\ itemLoading' = itemLoading ]_vars

====
